---- MODULE Spec2Model ----
(***************************************************************************)
(* Model of tokidator's token validation pipeline                          *)
(* (src/token/validator.rs): ValidationAuthority and AccessEnforcer.       *)
(*                                                                         *)
(* The collaborators the validator imports from other modules of the crate *)
(* (SignedMessage, PublicKey, PolicyCondition, PolicyAccessToken,          *)
(* ToTokenStr) are modelled from their documented contracts.               *)
(***************************************************************************)
EXTENDS Integers, Sequences, FiniteSets, TLC

VARIABLES
    va,        \* the ValidationAuthority: its public_key (the decoding function is from_bytes)
    now,       \* the clock is_expired reads
    enforcer,  \* the AccessEnforcer the caller holds, if any
    last,      \* the most recent call: its arguments, its result and the steps it ran
    audit,     \* what was noted about the enforcer held: its source and first answers
    watch,     \* what the caller watches: all calls, the enforcer, or one call
    seen       \* the outcomes of the calls equal to the watched call

vars == <<va, now, enforcer, last, audit, watch, seen>>

\* ---------------------------------------------------------------- bounds
\* number of distinct policy values of the policy enumeration (ordinals 1..PolicyCount)
PolicyCount == 1
\* the clock runs over 0..MaxTime
MaxTime == 1

\* the key pair of the trusted identity server, and another key pair; key pair
\* k is a private key k and its public key k
TrustedKey == 1
OtherKey == 2

Keys == {TrustedKey, OtherKey}
Policies == 1..PolicyCount
Times == 0..MaxTime

\* ---------------------------------------------------------------- errors
Unauthorized == "Unauthorized"
BadSignedMessageEncoding == "BadSignedMessageEncoding"
SignatureVerificationFail == "SignatureVerificationFail"
BadPolicyEncoding == "BadPolicyEncoding"
ExpiredAccessToken == "ExpiredAccessToken"
Forbidden == "Forbidden"

\* ---------------------------------------------------------------- values
\* a policy set is a bitset indexed by the policy's ordinal
PolicySets == [Policies -> {0, 1}]

\* an access token: its policy set and the end of its validity window
AccessTokens == [policies : PolicySets, expires_at : Times]

NoToken == [policies |-> [p \in Policies |-> 0], expires_at |-> -1]

\* Result<A, Error>
Ok(t) == [ok |-> TRUE, val |-> t, err |-> ""]
Err(e) == [ok |-> FALSE, val |-> NoToken, err |-> e]

\* Option<&str> as produced by ToTokenStr::to_str
None == [some |-> FALSE, str |-> <<>>]
Some(s) == [some |-> TRUE, str |-> s]

\* PolicyCondition<P>
NoCheck == [kind |-> "NoCheck", p |-> 0]
Contains(p) == [kind |-> "Contains", p |-> p]
Conditions == {NoCheck} \cup {Contains(p) : p \in Policies}

\* ---------------------------------------------------------------- collaborators
\* PolicyCondition::satisfy
satisfy(condition, policies) ==
    IF condition.kind = "NoCheck" THEN TRUE ELSE policies[condition.p] = 1

\* PolicyAccessToken::policies
policies(access_token) == access_token.policies

\* PolicyAccessToken::is_expired, "expired as of now"
is_expired(access_token, t) == t > access_token.expires_at

\* the byte encoding of an access token: the expiry, then one byte per policy ordinal
to_bytes(access_token) ==
    <<access_token.expires_at>> \o [i \in 1..PolicyCount |-> access_token.policies[i]]

\* the token decoding function handed to ValidationAuthority::new: bytes -> Option<A>
from_bytes(bytes) ==
    IF /\ Len(bytes) = 1 + PolicyCount
       /\ bytes[1] \in Times
       /\ \A i \in 2..Len(bytes) : bytes[i] \in {0, 1}
    THEN [some |-> TRUE,
          val |-> [policies |-> [p \in Policies |-> bytes[p + 1]], expires_at |-> bytes[1]]]
    ELSE [some |-> FALSE, val |-> NoToken]

\* SignedMessage::create(..).to_string(): the signature, here the identity of
\* the signing key, followed by the message bytes
create(message, private_key) == <<private_key>> \o message

\* SignedMessage::from_str
from_str(s) ==
    IF Len(s) >= 1 /\ s[1] \in Keys
    THEN [ok |-> TRUE, signature |-> s[1], message |-> Tail(s)]
    ELSE [ok |-> FALSE, signature |-> 0, message |-> <<>>]

\* SignedMessage::verify
verify(signed_message, public_key) == signed_message.signature = public_key

\* SignedMessage::message
message(signed_message) == signed_message.message

\* ---------------------------------------------------------------- inputs
\* payloads a signer may have signed: every token's encoding, and a payload whose
\* policy bytes are not bits
Payloads == {to_bytes(t) : t \in AccessTokens} \cup {<<0>> \o [i \in 1..PolicyCount |-> 2]}

\* token strings: signed messages of every key, and a string that does not start
\* with a signature
TokenStrings == {create(m, k) : m \in Payloads, k \in Keys} \cup {<<0, 0>>}

TokenInputs == {None} \cup {Some(s) : s \in TokenStrings}

\* ---------------------------------------------------------------- ValidationAuthority
\* ValidationAuthority::new
ValidationAuthority_new(public_key) == [public_key |-> public_key]

\* a call's outcome: the Result it returns and the collaborator calls it made, in order
Outcome(result, steps) == [result |-> result, steps |-> steps]

\* Faulty variants of decode_verify_check_expiration.
\* The payload is decoded before the signature is verified.
decode_verify_check_expiration_decode_first(self, token, t) ==
    LET signed_message == from_str(token) IN
    IF ~signed_message.ok
    THEN Outcome(Err(BadSignedMessageEncoding), <<"from_str">>)
    ELSE LET decoded == from_bytes(message(signed_message)) IN
         IF ~decoded.some
         THEN Outcome(Err(BadPolicyEncoding), <<"from_str", "factory">>)
         ELSE IF ~verify(signed_message, self.public_key)
         THEN Outcome(Err(SignatureVerificationFail), <<"from_str", "factory", "verify">>)
         ELSE IF is_expired(decoded.val, t)
         THEN Outcome(Err(ExpiredAccessToken), <<"from_str", "factory", "verify", "is_expired">>)
         ELSE Outcome(Ok(decoded.val), <<"from_str", "factory", "verify", "is_expired">>)

\* The expiry check is left out.
decode_verify_check_expiration_no_expiry(self, token, t) ==
    LET signed_message == from_str(token) IN
    IF ~signed_message.ok
    THEN Outcome(Err(BadSignedMessageEncoding), <<"from_str">>)
    ELSE IF ~verify(signed_message, self.public_key)
    THEN Outcome(Err(SignatureVerificationFail), <<"from_str", "verify">>)
    ELSE LET decoded == from_bytes(message(signed_message)) IN
         IF ~decoded.some
         THEN Outcome(Err(BadPolicyEncoding), <<"from_str", "verify", "factory">>)
         ELSE Outcome(Ok(decoded.val), <<"from_str", "verify", "factory">>)

\* The result of verify is ignored.
decode_verify_check_expiration_no_verify(self, token, t) ==
    LET signed_message == from_str(token) IN
    IF ~signed_message.ok
    THEN Outcome(Err(BadSignedMessageEncoding), <<"from_str">>)
    ELSE LET decoded == from_bytes(message(signed_message)) IN
         IF ~decoded.some
         THEN Outcome(Err(BadPolicyEncoding), <<"from_str", "verify", "factory">>)
         ELSE IF is_expired(decoded.val, t)
         THEN Outcome(Err(ExpiredAccessToken), <<"from_str", "verify", "factory", "is_expired">>)
         ELSE Outcome(Ok(decoded.val), <<"from_str", "verify", "factory", "is_expired">>)

\* A string that does not parse is handed on to verify as an empty envelope.
decode_verify_check_expiration_parse_lenient(self, token, t) ==
    LET signed_message == from_str(token) IN
    IF ~verify(signed_message, self.public_key)
    THEN Outcome(Err(SignatureVerificationFail), <<"from_str", "verify">>)
    ELSE LET decoded == from_bytes(message(signed_message)) IN
         IF ~decoded.some
         THEN Outcome(Err(BadPolicyEncoding), <<"from_str", "verify", "factory">>)
         ELSE IF is_expired(decoded.val, t)
         THEN Outcome(Err(ExpiredAccessToken), <<"from_str", "verify", "factory", "is_expired">>)
         ELSE Outcome(Ok(decoded.val), <<"from_str", "verify", "factory", "is_expired">>)

\* ValidationAuthority::decode_verify_check_expiration, evaluated at time t
decode_verify_check_expiration(self, token, t) ==
    LET signed_message == from_str(token) IN
    IF ~signed_message.ok
    THEN Outcome(Err(BadSignedMessageEncoding), <<"from_str">>)
    ELSE IF ~verify(signed_message, self.public_key)
    THEN Outcome(Err(SignatureVerificationFail), <<"from_str", "verify">>)
    ELSE LET decoded == from_bytes(message(signed_message)) IN
         IF ~decoded.some
         THEN Outcome(Err(BadPolicyEncoding), <<"from_str", "verify", "factory">>)
         ELSE IF is_expired(decoded.val, t)
         THEN Outcome(Err(ExpiredAccessToken), <<"from_str", "verify", "factory", "is_expired">>)
         ELSE Outcome(Ok(decoded.val), <<"from_str", "verify", "factory", "is_expired">>)

\* Faulty variants of ValidationAuthority::enforce.
\* The condition is not evaluated.
ValidationAuthority_enforce_no_condition(self, condition, token, t) ==
    IF ~token.some
    THEN Outcome(Err(Unauthorized), <<>>)
    ELSE decode_verify_check_expiration(self, token.str, t)

\* An absent token is treated as the empty string.
ValidationAuthority_enforce_absent_as_empty(self, condition, token, t) ==
    LET access_token == decode_verify_check_expiration(self, token.str, t) IN
    IF ~access_token.result.ok
    THEN access_token
    ELSE IF satisfy(condition, policies(access_token.result.val))
    THEN Outcome(Ok(access_token.result.val), access_token.steps \o <<"satisfy">>)
    ELSE Outcome(Err(Forbidden), access_token.steps \o <<"satisfy">>)

\* The condition is evaluated on the decoded token before its expiry is checked.
ValidationAuthority_enforce_condition_first(self, condition, token, t) ==
    IF ~token.some
    THEN Outcome(Err(Unauthorized), <<>>)
    ELSE LET signed_message == from_str(token.str)
             decoded == from_bytes(message(signed_message))
         IN
         IF signed_message.ok /\ verify(signed_message, self.public_key) /\ decoded.some
            /\ ~satisfy(condition, policies(decoded.val))
         THEN Outcome(Err(Forbidden), <<"from_str", "verify", "factory", "satisfy">>)
         ELSE LET access_token == decode_verify_check_expiration(self, token.str, t) IN
              IF access_token.result.ok
              THEN Outcome(access_token.result, access_token.steps \o <<"satisfy">>)
              ELSE access_token

\* The token of the enforcer the caller holds is reused instead of decoding again.
ValidationAuthority_enforce_cached(self, condition, token, t) ==
    IF ~token.some
    THEN Outcome(Err(Unauthorized), <<>>)
    ELSE LET access_token == IF enforcer.live
                             THEN Outcome(Ok(enforcer.access_token), <<>>)
                             ELSE decode_verify_check_expiration(self, token.str, t)
         IN
         IF ~access_token.result.ok
         THEN access_token
         ELSE IF satisfy(condition, policies(access_token.result.val))
         THEN Outcome(Ok(access_token.result.val), access_token.steps \o <<"satisfy">>)
         ELSE Outcome(Err(Forbidden), access_token.steps \o <<"satisfy">>)

\* ValidationAuthority::enforce, evaluated at time t
ValidationAuthority_enforce(self, condition, token, t) ==
    IF ~token.some
    THEN Outcome(Err(Unauthorized), <<>>)
    ELSE LET access_token == decode_verify_check_expiration(self, token.str, t) IN
         IF ~access_token.result.ok
         THEN access_token
         ELSE IF satisfy(condition, policies(access_token.result.val))
         THEN Outcome(Ok(access_token.result.val), access_token.steps \o <<"satisfy">>)
         ELSE Outcome(Err(Forbidden), access_token.steps \o <<"satisfy">>)

\* ---------------------------------------------------------------- AccessEnforcer
\* AccessEnforcer::new
AccessEnforcer_new(access_token) == [access_token |-> access_token]

\* Faulty variant of ValidationAuthority::to_access_enforcer: the pipeline is
\* run a second time before the enforcer is built.
ValidationAuthority_to_access_enforcer_twice(self, token, t) ==
    IF ~token.some
    THEN Outcome(Err(Unauthorized), <<>>)
    ELSE LET decoded == decode_verify_check_expiration(self, token.str, t) IN
         IF decoded.result.ok
         THEN Outcome(Ok(AccessEnforcer_new(decoded.result.val).access_token),
                      decoded.steps \o decoded.steps)
         ELSE decoded

\* ValidationAuthority::to_access_enforcer, evaluated at time t; on success
\* result.val is the token the new AccessEnforcer wraps
ValidationAuthority_to_access_enforcer(self, token, t) ==
    IF ~token.some
    THEN Outcome(Err(Unauthorized), <<>>)
    ELSE LET decoded == decode_verify_check_expiration(self, token.str, t) IN
         IF decoded.result.ok
         THEN Outcome(Ok(AccessEnforcer_new(decoded.result.val).access_token), decoded.steps)
         ELSE decoded

\* Faulty variant of AccessEnforcer::enforce: the expiry is checked again.
AccessEnforcer_enforce_recheck(self, condition) ==
    IF is_expired(self.access_token, now)
    THEN Outcome(Err(ExpiredAccessToken), <<"is_expired">>)
    ELSE IF satisfy(condition, policies(self.access_token))
    THEN Outcome(Ok(self.access_token), <<"is_expired", "satisfy">>)
    ELSE Outcome(Err(Forbidden), <<"is_expired", "satisfy">>)

\* AccessEnforcer::enforce
AccessEnforcer_enforce(self, condition) ==
    IF satisfy(condition, policies(self.access_token))
    THEN Outcome(Ok(self.access_token), <<"satisfy">>)
    ELSE Outcome(Err(Forbidden), <<"satisfy">>)

\* AccessEnforcer::into_access_token
into_access_token(self) == self.access_token

\* ---------------------------------------------------------------- state
Unasked == Err("unasked")

\* no AccessEnforcer held
NoEnforcer == [live |-> FALSE, access_token |-> NoToken]

NoCall ==
    [op |-> "none", cond |-> NoCheck, token |-> None, at |-> 0,
     result |-> Err(""), steps |-> <<>>]

\* nothing noted about the enforcer held (src: the token it was made from;
\* verifs: signature verifications run for it; first: the first answer to each
\* condition; again: its latest enforce call repeated a condition)
NoAudit ==
    [src |-> None, verifs |-> 0, again |-> FALSE, first |-> [c \in Conditions |-> Unasked]]

\* what the caller watches: every call, the enforcer it holds, or one given call
WatchCalls == [op |-> "calls", cond |-> NoCheck, token |-> None]

WatchEnforcer == [op |-> "enforcer", cond |-> NoCheck, token |-> None]

ProbeCalls ==
    {[op |-> "enforce", cond |-> c, token |-> tk] : c \in Conditions, tk \in TokenInputs}
    \cup {[op |-> "to_access_enforcer", cond |-> NoCheck, token |-> tk] : tk \in TokenInputs}

\* number of signature verifications among the steps of a call
Verifications(steps) == Cardinality({i \in DOMAIN steps : steps[i] = "verify"})

\* a finished call as the caller sees it
Call(op, condition, token, out) ==
    [op |-> op, cond |-> condition, token |-> token, at |-> now,
     result |-> out.result, steps |-> out.steps]

\* What the caller notes of a finished call (a is the audit after the call).
\* Watching calls: the call becomes last. Watching the enforcer: audit follows
\* the enforcer held and last keeps the enforcer's calls, of any other call only
\* its name. Watching one call: the outcomes of the calls equal to it are
\* collected, and whether another call ran between the first two of them.
Record(op, condition, token, out, a) ==
    IF watch = WatchCalls
    THEN /\ last' = Call(op, condition, token, out)
         /\ audit' = audit
         /\ seen' = seen
    ELSE IF watch = WatchEnforcer
    THEN /\ last' = IF op = "AccessEnforcer.enforce"
                    THEN Call(op, condition, token, out)
                    ELSE [NoCall EXCEPT !.op = op]
         /\ audit' = a
         /\ seen' = seen
    ELSE /\ last' = last
         /\ audit' = audit
         /\ seen' = IF [op |-> op, cond |-> condition, token |-> token] = watch
                    THEN [count |-> IF seen.count < 2 THEN seen.count + 1 ELSE 2,
                          others |-> seen.others,
                          obs |-> seen.obs \cup {[at |-> now, result |-> out.result]}]
                    ELSE [seen EXCEPT !.others = @ \/ seen.count = 1]

InitCommon ==
    /\ va = ValidationAuthority_new(TrustedKey)
    /\ now = 0
    /\ enforcer = NoEnforcer
    /\ last = NoCall
    /\ audit = NoAudit
    /\ seen = [count |-> 0, others |-> FALSE, obs |-> {}]

Init == InitCommon /\ watch = WatchCalls

InitEnf == InitCommon /\ watch = WatchEnforcer

InitDet == InitCommon /\ watch \in ProbeCalls

\* ---------------------------------------------------------------- actions
\* a caller runs va.enforce(condition, token)
Enforce(condition, token) ==
    LET out == ValidationAuthority_enforce(va, condition, token, now) IN
    /\ Record("enforce", condition, token, out, audit)
    /\ UNCHANGED <<va, now, enforcer, watch>>

\* a caller runs va.to_access_enforcer(token) and keeps the enforcer it returns
ToAccessEnforcer(token) ==
    LET out == ValidationAuthority_to_access_enforcer(va, token, now) IN
    /\ Record("to_access_enforcer", NoCheck, token, out,
              IF out.result.ok
              THEN [src |-> token, verifs |-> Verifications(out.steps), again |-> FALSE,
                    first |-> [c \in Conditions |-> Unasked]]
              ELSE audit)
    /\ enforcer' = IF out.result.ok
                   THEN [live |-> TRUE, access_token |-> out.result.val]
                   ELSE enforcer
    /\ UNCHANGED <<va, now, watch>>

\* the caller runs enforcer.enforce(condition) on the enforcer it holds
EnforcerEnforce(condition) ==
    /\ enforcer.live
    /\ LET out == AccessEnforcer_enforce(AccessEnforcer_new(enforcer.access_token), condition) IN
       Record("AccessEnforcer.enforce", condition, audit.src, out,
              [audit EXCEPT !.verifs = @ + Verifications(out.steps),
                            !.again = audit.first[condition] # Unasked,
                            !.first[condition] = IF @ = Unasked THEN out.result ELSE @])
    /\ UNCHANGED <<va, now, enforcer, watch>>

\* the caller consumes the enforcer with into_access_token
IntoAccessToken ==
    /\ enforcer.live
    /\ Record("into_access_token", NoCheck, audit.src,
              Outcome(Ok(into_access_token(AccessEnforcer_new(enforcer.access_token))), <<>>),
              NoAudit)
    /\ enforcer' = NoEnforcer
    /\ UNCHANGED <<va, now, watch>>

\* time passes
Tick ==
    /\ now < MaxTime
    /\ now' = now + 1
    /\ UNCHANGED <<va, enforcer, last, audit, watch, seen>>

Next ==
    \/ \E c \in Conditions, tk \in TokenInputs : Enforce(c, tk)
    \/ \E tk \in TokenInputs : ToAccessEnforcer(tk)
    \/ \E c \in Conditions : EnforcerEnforce(c)
    \/ IntoAccessToken
    \/ Tick

Spec == Init /\ [][Next]_vars

SpecEnf == InitEnf /\ [][Next]_vars

SpecDet == InitDet /\ [][Next]_vars

\* ---------------------------------------------------------------- properties
\* what the pipeline's stages make of a token input, stated on the input alone
Parses(tk) == tk.some /\ from_str(tk.str).ok
Verifies(tk) == Parses(tk) /\ verify(from_str(tk.str), va.public_key)
Decodes(tk) == Verifies(tk) /\ from_bytes(message(from_str(tk.str))).some
TokenOf(tk) == from_bytes(message(from_str(tk.str))).val
Valid(tk, t) == Decodes(tk) /\ ~is_expired(TokenOf(tk), t)

LastIsAuthorityCall == last.op \in {"enforce", "to_access_enforcer"}

\* C1: for a present, well-formed, correctly signed, decodable, unexpired token T,
\* enforce(C, token) returns Ok(T) exactly when C.satisfy(T.policies()) and
\* Err(Forbidden) exactly when not.
C1_EnforceDecidesBySatisfy ==
    (last.op = "enforce" /\ Valid(last.token, last.at)) =>
        last.result = IF satisfy(last.cond, policies(TokenOf(last.token)))
                      THEN Ok(TokenOf(last.token))
                      ELSE Err(Forbidden)

C1_Witness ==
    /\ last.op = "enforce"
    /\ Valid(last.token, last.at)
    /\ last.cond.kind = "Contains"
    /\ ~satisfy(last.cond, policies(TokenOf(last.token)))
    /\ last.result = Err(Forbidden)

\* C2: in a call of the authority, the decoding function and is_expired run only
\* after verify has run, earlier in the same call, and has succeeded.
C2_VerifyPrecedesDecodeAndExpiry ==
    LastIsAuthorityCall =>
        \A i \in DOMAIN last.steps :
            last.steps[i] \in {"factory", "is_expired"} =>
                /\ \E j \in 1..(i - 1) : last.steps[j] = "verify"
                /\ Verifies(last.token)

C2_Witness ==
    /\ LastIsAuthorityCall
    /\ \E i \in DOMAIN last.steps : last.steps[i] = "is_expired"
    /\ Verifies(last.token)

\* C3: fail-closed. enforce returns Ok only for a present, well-formed, correctly
\* signed, decodable, unexpired token whose policies satisfy the condition, and
\* to_access_enforcer returns an enforcer only if all of these but the last hold.
C3_FailClosed ==
    /\ (last.op = "enforce" /\ last.result.ok) =>
           /\ Valid(last.token, last.at)
           /\ satisfy(last.cond, policies(TokenOf(last.token)))
           /\ last.result.val = TokenOf(last.token)
    /\ (last.op = "to_access_enforcer" /\ last.result.ok) =>
           /\ Valid(last.token, last.at)
           /\ last.result.val = TokenOf(last.token)
           /\ enforcer = [live |-> TRUE, access_token |-> TokenOf(last.token)]

C3_Witness ==
    /\ last.op = "to_access_enforcer"
    /\ last.result.ok
    /\ enforcer.live
    /\ \E p \in Policies : ~satisfy(Contains(p), policies(enforcer.access_token))

\* C4: with no token supplied, enforce and to_access_enforcer return
\* Err(Unauthorized) and run no step of the pipeline.
C4_NoTokenUnauthorized ==
    (LastIsAuthorityCall /\ ~last.token.some) =>
        /\ last.result = Err(Unauthorized)
        /\ last.steps = <<>>

C4_Witness ==
    /\ last.op = "enforce"
    /\ ~last.token.some
    /\ last.cond.kind = "Contains"
    /\ last.result = Err(Unauthorized)

\* C5: a well-formed token whose signature does not verify under the trusted key
\* yields Err(SignatureVerificationFail) from enforce, whatever its payload.
C5_UntrustedSignatureFails ==
    (last.op = "enforce" /\ Parses(last.token) /\ ~Verifies(last.token)) =>
        last.result = Err(SignatureVerificationFail)

C5_Witness ==
    /\ last.op = "enforce"
    /\ Parses(last.token)
    /\ ~Verifies(last.token)
    /\ from_bytes(message(from_str(last.token.str))).some
    /\ ~is_expired(TokenOf(last.token), last.at)
    /\ \A c \in Conditions : satisfy(c, policies(TokenOf(last.token)))
    /\ last.result = Err(SignatureVerificationFail)

\* C6: a correctly signed, decodable, expired token yields Err(ExpiredAccessToken)
\* from enforce for every condition, and the condition is not evaluated.
C6_ExpiryBeforePolicy ==
    (last.op = "enforce" /\ Decodes(last.token) /\ is_expired(TokenOf(last.token), last.at)) =>
        /\ last.result = Err(ExpiredAccessToken)
        /\ \A i \in DOMAIN last.steps : last.steps[i] # "satisfy"

C6_Witness ==
    /\ last.op = "enforce"
    /\ Decodes(last.token)
    /\ is_expired(TokenOf(last.token), last.at)
    /\ ~satisfy(last.cond, policies(TokenOf(last.token)))
    /\ last.result = Err(ExpiredAccessToken)

\* C7: a supplied string that is not a well-formed signed envelope yields
\* Err(BadSignedMessageEncoding) from enforce, and only the parse is run.
C7_MalformedEnvelope ==
    (last.op = "enforce" /\ last.token.some /\ ~Parses(last.token)) =>
        /\ last.result = Err(BadSignedMessageEncoding)
        /\ last.steps = <<"from_str">>

C7_Witness ==
    /\ last.op = "enforce"
    /\ last.token.some
    /\ ~Parses(last.token)
    /\ last.cond.kind = "Contains"
    /\ last.result = Err(BadSignedMessageEncoding)

\* the enforcer's latest answer, and what a direct enforce with the token the
\* enforcer was made from and the same condition returns at that moment
DirectEnforce == ValidationAuthority_enforce(va, last.cond, audit.src, last.at).result

\* C8 as stated: an enforcer's answers come with exactly one signature
\* verification and equal those of direct enforce calls with the same token and
\* conditions.
C8_Original ==
    last.op = "AccessEnforcer.enforce" =>
        /\ audit.verifs = 1
        /\ last.result = DirectEnforce

\* C8, amended: an enforcer's answers come with exactly one signature
\* verification, and equal those of direct enforce calls with the same token and
\* conditions made while the token has not yet expired.
C8_EnforcerMatchesDirectUntilExpiry ==
    last.op = "AccessEnforcer.enforce" =>
        /\ audit.verifs = 1
        /\ ~is_expired(enforcer.access_token, last.at) => last.result = DirectEnforce

C8_Witness ==
    /\ last.op = "AccessEnforcer.enforce"
    /\ audit.verifs = 1
    /\ ~is_expired(enforcer.access_token, last.at)
    /\ \E c, d \in Conditions :
           /\ c # d
           /\ audit.first[c] # Unasked
           /\ audit.first[d] # Unasked
           /\ audit.first[c] # audit.first[d]

\* C9: evaluating a condition again on the same enforcer returns what it
\* returned the first time, and a returned token is the wrapped token.
C9_EnforcerIdempotent ==
    last.op = "AccessEnforcer.enforce" =>
        /\ last.result = audit.first[last.cond]
        /\ last.result.ok => last.result.val = enforcer.access_token

C9_Witness ==
    /\ last.op = "AccessEnforcer.enforce"
    /\ audit.again
    /\ is_expired(enforcer.access_token, now)
    /\ \E c \in Conditions : c # last.cond /\ audit.first[c] # Unasked

\* the results collected for the watched call
ProbeResults == {o.result : o \in seen.obs}

====
